---- MODULE Spec2Model ----
(***************************************************************************)
(* whirlwind: the directory scan (ScanStats.add_file, scan_directory,      *)
(* render_scan_report, the scan command) and the raster metadata           *)
(* extraction (extract_metadata, get_footprint) of toolbox.py.             *)
(***************************************************************************)
EXTENDS Integers, Sequences, FiniteSets, TLC

(* ---- bounds of the model ---- *)
MaxTopN == 3        \* largest --top-n value tried
MaxFiles == 3       \* files met in one walk
MaxDirs == 2        \* directories yielded by one walk
MaxSize == 2        \* largest st_size tried
MaxDim == 2         \* largest raster width and height tried
MaxColumns == 2     \* size of the requested column sets tried exhaustively
MaxEntries == 3     \* directory entries met by one write_csv_mosaics

VARIABLES
    pc,            \* position of the scan command: "parsed", "walk", "render", "exit"
    root_kind,     \* what args.root resolves to: "dir", "file", "missing"
    top_n,         \* args.top_n
    stats,         \* the ScanStats of scan_directory
    files_left,    \* filenames of the current directory not yet visited
    result,        \* how the command ended: [kind, code, exc]
    scan_called,   \* scan_directory has been entered (a ScanStats exists)
    rendered,      \* console.print of the report has happened
    observed,      \* history: the (size, path) items passed to add_file, in order
    stat_fails,    \* history: number of files whose p.stat() raised OSError
    dirs_visited,  \* history: number of directories os.walk yielded
    ok_after_fail, \* history: a stat succeeded after an earlier one had failed
    epc,           \* position of extract_metadata: "idle", "done"
    columns,       \* the requested columns
    ds,            \* the raster behind the uri, as the provider reports it
    out,           \* the record extract_metadata returns
    eresult,       \* how extract_metadata ended: [kind, code, exc]
    calls,         \* history: number of calls of each provider capability
    fp,            \* history: the get_footprint call: locals and outcome
    wpc,           \* position of write_csv_mosaics: "extract", "exit"
    entries,       \* what input_path.rglob("*") yields, in order
    columns_arg,   \* the columns argument: None or a list of names
    exceptions,    \* osgeo raises on errors instead of returning error codes
    rows,          \* the rows list of write_csv_mosaics
    attempted,     \* history: number of extract_metadata calls made
    csv_open,      \* out_csv has been opened for writing
    csv_lines,     \* the lines written to out_csv, each a list of fields
    wresult        \* how write_csv_mosaics ended: [kind, code, exc]

scan_vars == <<pc, root_kind, top_n, stats, files_left, result, scan_called,
               rendered, observed, stat_fails, dirs_visited, ok_after_fail>>

extract_vars == <<epc, columns, ds, out, eresult, calls, fp>>

csv_vars == <<wpc, entries, columns_arg, exceptions, rows, attempted, csv_open,
              csv_lines, wresult>>

vars == <<scan_vars, extract_vars, csv_vars>>

(* ---- values ---- *)
RootKinds == {"dir", "file", "missing"}
TopNs == {-1} \cup (0 .. MaxTopN)
Sizes == 0 .. MaxSize
Paths == 1 .. MaxFiles      \* a path is its rank in the string order of the paths

NoResult == [kind |-> "none", code |-> 0, exc |-> ""]
Return(c) == [kind |-> "return", code |-> c, exc |-> ""]
Raise(e) == [kind |-> "raise", code |-> 0, exc |-> e]

(* ScanStats(): the dataclass defaults *)
ScanStats == [num_dirs |-> 0, num_files |-> 0, total_bytes |-> 0, largest |-> <<>>]

(* ---- heapq on (size, path) tuples; Python index i is TLA+ index i+1 ---- *)

(* tuple comparison a < b *)
ItemLess(a, b) == a[1] < b[1] \/ (a[1] = b[1] /\ a[2] < b[2])

RECURSIVE siftdown(_, _, _, _)
siftdown(heap, startpos, pos, newitem) ==
    IF pos > startpos
    THEN LET parentpos == (pos - 1) \div 2
             parent == heap[parentpos + 1]
         IN IF ItemLess(newitem, parent)
            THEN siftdown([heap EXCEPT ![pos + 1] = parent], startpos, parentpos, newitem)
            ELSE [heap EXCEPT ![pos + 1] = newitem]
    ELSE [heap EXCEPT ![pos + 1] = newitem]

RECURSIVE siftup(_, _, _, _)
siftup(heap, startpos, pos, newitem) ==
    LET endpos == Len(heap)
        childpos == 2 * pos + 1
    IN IF childpos < endpos
       THEN LET rightpos == childpos + 1
                c == IF rightpos < endpos
                        /\ ~ItemLess(heap[childpos + 1], heap[rightpos + 1])
                     THEN rightpos ELSE childpos
            IN siftup([heap EXCEPT ![pos + 1] = heap[c + 1]], startpos, c, newitem)
       ELSE siftdown([heap EXCEPT ![pos + 1] = newitem], startpos, pos, newitem)

heappush(heap, item) ==
    siftdown(Append(heap, item), 0, Len(heap), item)

heapreplace(heap, item) ==
    siftup([heap EXCEPT ![1] = item], 0, 0, item)

(* ---- ScanStats.add_file ---- *)

(* add_file replacing on size >= largest[0][0] *)
add_file_ge(s, path, size, n) ==
    LET counted == [s EXCEPT !.num_files = @ + 1, !.total_bytes = @ + size]
        item == <<size, path>>
    IN IF n > 0
       THEN IF Len(s.largest) < n
            THEN [counted EXCEPT !.largest = heappush(s.largest, item)]
            ELSE IF size >= s.largest[1][1]
                 THEN [counted EXCEPT !.largest = heapreplace(s.largest, item)]
                 ELSE counted
       ELSE counted

(* add_file comparing with largest[-1][0] *)
add_file_last(s, path, size, n) ==
    LET counted == [s EXCEPT !.num_files = @ + 1, !.total_bytes = @ + size]
        item == <<size, path>>
    IN IF n > 0
       THEN IF Len(s.largest) < n
            THEN [counted EXCEPT !.largest = heappush(s.largest, item)]
            ELSE IF size > s.largest[Len(s.largest)][1]
                 THEN [counted EXCEPT !.largest = heapreplace(s.largest, item)]
                 ELSE counted
       ELSE counted

(* add_file counting the file only when top_n > 0 *)
add_file_guarded(s, path, size, n) ==
    LET counted == [s EXCEPT !.num_files = @ + 1, !.total_bytes = @ + size]
        item == <<size, path>>
    IN IF n > 0
       THEN IF Len(s.largest) < n
            THEN [counted EXCEPT !.largest = heappush(s.largest, item)]
            ELSE IF size > s.largest[1][1]
                 THEN [counted EXCEPT !.largest = heapreplace(s.largest, item)]
                 ELSE counted
       ELSE s

(* ScanStats.add_file(path, size, top_n) *)
add_file(s, path, size, n) ==
    LET counted == [s EXCEPT !.num_files = @ + 1, !.total_bytes = @ + size]
        item == <<size, path>>
    IN IF n > 0
       THEN IF Len(s.largest) < n
            THEN [counted EXCEPT !.largest = heappush(s.largest, item)]
            ELSE IF size > s.largest[1][1]
                 THEN [counted EXCEPT !.largest = heapreplace(s.largest, item)]
                 ELSE counted
       ELSE counted

(* ---- the raster provider (osgeo.gdal / osgeo.osr) ---- *)

TargetEpsg == 4326

None == <<>>

Wgs84 == "GEOGCS[WGS 84,AUTHORITY[EPSG,4326]]"
Utm33 == "PROJCS[WGS 84 / UTM zone 33N,AUTHORITY[EPSG,32633]]"
BadWkt == "not a projection"
Projections == {"", Wgs84, Utm33, BadWkt}

GeoTransforms == {None, <<0, 1, 0, 0, 0, -1>>, <<1, 2, 1, 3, 1, -2>>}

(* band 1 of the raster: None when RasterCount is 0 *)
Bands == {None, <<[dtype |-> "Byte", nodata |-> None]>>,
          <<[dtype |-> "Byte", nodata |-> <<"0.0">>]>>}

Unopenable == [opens |-> FALSE, gt |-> None, proj |-> "", width |-> 1,
               height |-> 1, bands |-> None]

Rasters ==
    {Unopenable} \cup
    [opens : {TRUE}, gt : GeoTransforms, proj : Projections,
     width : 1 .. MaxDim, height : 1 .. MaxDim, bands : Bands]

Uri == "240119_denver_ortho.tif"

Vocabulary == {"mosaic_id", "uri", "uri_etag", "byte_size", "crs", "srid",
               "pixel_width", "pixel_height", "band_count", "dtype", "nodata",
               "footprint", "acquired_at", "created_at"}

(* the columns that share the projection and the raster size *)
SharedColumns == {"crs", "srid", "footprint", "pixel_width", "pixel_height",
                  "band_count"}

(* the column sets tried: every set of at most MaxColumns names, one of   *)
(* them outside the vocabulary, and the sets that request everything      *)
RECURSIVE SetsUpTo(_, _)
SetsUpTo(names, n) ==
    IF n = 0 THEN {{}}
    ELSE LET smaller == SetsUpTo(names, n - 1)
         IN smaller \cup {s \cup {c} : s \in smaller, c \in names}

ColumnSets ==
    SetsUpTo(Vocabulary \cup {"elevation"}, MaxColumns)
    \cup {SharedColumns, Vocabulary, Vocabulary \cup {"elevation"}}

CallNames == {"GetProjection", "GetGeoTransform", "RasterXSize", "RasterYSize",
              "RasterCount", "GetRasterBand", "TransformPoint", "get_footprint"}

NoCalls == [c \in CallNames |-> 0]

(* add the calls of b to those of a *)
AddCalls(a, b) == [c \in CallNames |-> a[c] + b[c]]

Called(names) == [c \in CallNames |-> IF c \in names THEN 1 ELSE 0]

(* srs.ImportFromWkt(wkt) fails on this text *)
Unparseable(wkt) == wkt = BadWkt

(* srs.GetAuthorityCode(None) *)
GetAuthorityCode(wkt) ==
    IF wkt = Wgs84 THEN "4326" ELSE IF wkt = Utm33 THEN "32633" ELSE ""

(* tx.TransformPoint(x, y) from the source CRS to EPSG:4326: the identity  *)
(* when the source is EPSG:4326; for the other CRS a stand-in on integers  *)
(* for the library's reprojection                                          *)
TransformPoint(wkt, pt) ==
    IF wkt = Wgs84 THEN pt ELSE <<pt[1] - 5, pt[2] + 7>>

(* f"{v:.8f}" of an integral value *)
fmt8(v) == ToString(v) \o ".00000000"

RECURSIVE join(_, _)
join(sep, strs) ==
    IF strs = <<>> THEN ""
    ELSE IF Len(strs) = 1 THEN strs[1]
    ELSE strs[1] \o sep \o join(sep, Tail(strs))

(* ---- helpers of extract_metadata ---- *)

uuid_from_path(uri) == "uuid5:" \o uri

get_byte_size(uri) == "st_size:" \o uri

parse_aquired_at(uri) == "date:" \o uri

created_at == "now"

get_crs(d) == d.proj

(* use_exceptions: osgeo raises on a failed ImportFromWkt instead of       *)
(* returning an error code                                                 *)
get_srid(crs_wkt, use_exceptions) ==
    IF crs_wkt = ""
    THEN [raised |-> FALSE, value |-> ""]
    ELSE IF Unparseable(crs_wkt) /\ use_exceptions
         THEN [raised |-> TRUE, value |-> ""]
         ELSE [raised |-> FALSE, value |-> GetAuthorityCode(crs_wkt)]

get_raster_shape(d) == <<ToString(d.width), ToString(d.height), ToString(Len(d.bands))>>

get_dtype_and_nodata(d) ==
    IF Len(d.bands) < 1
    THEN <<"", "">>
    ELSE LET b1 == d.bands[1]
         IN <<b1.dtype, IF b1.nodata = None THEN "" ELSE b1.nodata[1]>>

(* ---- get_footprint ---- *)

(* pix_to_geo with gt[4] and gt[5] exchanged *)
pix_to_geo_swapped(gt, px, py) ==
    <<gt[1] + px * gt[2] + py * gt[3], gt[4] + px * gt[6] + py * gt[5]>>

(* x = gt[0] + px*gt[1] + py*gt[2], y = gt[3] + px*gt[4] + py*gt[5] *)
pix_to_geo(gt, px, py) ==
    <<gt[1] + px * gt[2] + py * gt[3], gt[4] + px * gt[5] + py * gt[6]>>

NoFootprint == [called |-> FALSE, raised |-> FALSE, exc |-> "", value |-> "",
                corners |-> <<>>, corners_out |-> <<>>, calls |-> NoCalls]

get_footprint(d, target_epsg, use_exceptions) ==
    LET gt == d.gt
        src_wkt == d.proj
        width == d.width
        height == d.height
        corners == <<pix_to_geo(gt, 0, 0), pix_to_geo(gt, width, 0),
                     pix_to_geo(gt, width, height), pix_to_geo(gt, 0, height),
                     pix_to_geo(gt, 0, 0)>>
        corners_out == [i \in 1 .. Len(corners) |-> TransformPoint(src_wkt, corners[i])]
        coords == join(",", [i \in 1 .. Len(corners_out) |->
                                fmt8(corners_out[i][1]) \o " " \o fmt8(corners_out[i][2])])
        base == [NoFootprint EXCEPT !.called = TRUE]
    IN IF gt = None
       THEN [base EXCEPT !.calls = Called({"get_footprint", "GetGeoTransform"})]
       ELSE IF src_wkt = ""
       THEN [base EXCEPT !.calls = Called({"get_footprint", "GetGeoTransform",
                                           "GetProjection"})]
       ELSE IF Unparseable(src_wkt)
       THEN [base EXCEPT !.raised = TRUE,
                         !.exc = IF use_exceptions THEN "RuntimeError" ELSE "TypeError",
                         !.corners = corners,
                         !.calls = Called({"get_footprint", "GetGeoTransform",
                                           "GetProjection", "RasterXSize",
                                           "RasterYSize"})]
       ELSE [base EXCEPT !.value = "SRID=" \o ToString(target_epsg)
                                       \o ";POLYGON((" \o coords \o "))",
                         !.corners = corners,
                         !.corners_out = corners_out,
                         !.calls = [Called({"get_footprint", "GetGeoTransform",
                                            "GetProjection", "RasterXSize",
                                            "RasterYSize"})
                                    EXCEPT !["TransformPoint"] = Len(corners)]]

(* ---- extract_metadata ---- *)

EmptyRecord == [k \in {} |-> ""]

(* out[k] = v when the test of the column holds, out unchanged otherwise *)
Put(requested, k, v) == IF requested THEN (k :> v) ELSE EmptyRecord

Count(requested, names) == IF requested THEN Called(names) ELSE NoCalls

(* the projection fetched whatever the columns *)
crs_needed_always(cols) == TRUE

(* "crs" in columns or "srid" in columns or "footprint" in columns *)
crs_needed(cols) == "crs" \in cols \/ "srid" \in cols \/ "footprint" \in cols

(* any(c in columns for c in ("pixel_width", "pixel_height", "band_count")) *)
shape_needed(cols) == \E c \in {"pixel_width", "pixel_height", "band_count"} : c \in cols

(* "dtype" in columns or "nodata" in columns *)
band_needed(cols) == "dtype" \in cols \/ "nodata" \in cols

extract_metadata(uri, d, cols, use_exceptions) ==
    LET o1 == Put("mosaic_id" \in cols, "mosaic_id", uuid_from_path(uri))
        o2 == Put("uri" \in cols, "uri", uri) @@ o1
        o3 == Put("byte_size" \in cols, "byte_size", get_byte_size(uri)) @@ o2
        crs_wkt == IF crs_needed(cols) THEN get_crs(d) ELSE ""
        c1 == Count(crs_needed(cols), {"GetProjection"})
        o4 == Put("crs" \in cols, "crs", crs_wkt) @@ o3
        srid == get_srid(crs_wkt, use_exceptions)
        o5 == Put("srid" \in cols, "srid", srid.value) @@ o4
        shape == get_raster_shape(d)
        c2 == AddCalls(c1, Count(shape_needed(cols),
                                 {"RasterXSize", "RasterYSize", "RasterCount"}))
        o6 == Put(shape_needed(cols) /\ "pixel_width" \in cols, "pixel_width", shape[1]) @@ o5
        o7 == Put(shape_needed(cols) /\ "pixel_height" \in cols, "pixel_height", shape[2]) @@ o6
        o8 == Put(shape_needed(cols) /\ "band_count" \in cols, "band_count", shape[3]) @@ o7
        dn == get_dtype_and_nodata(d)
        c3 == AddCalls(c2, Count(band_needed(cols),
                                 IF Len(d.bands) < 1 THEN {"RasterCount"}
                                 ELSE {"RasterCount", "GetRasterBand"}))
        o9 == Put(band_needed(cols) /\ "dtype" \in cols, "dtype", dn[1]) @@ o8
        o10 == Put(band_needed(cols) /\ "nodata" \in cols, "nodata", dn[2]) @@ o9
        foot == IF "footprint" \in cols THEN get_footprint(d, TargetEpsg, use_exceptions)
                ELSE NoFootprint
        c4 == AddCalls(c3, foot.calls)
        o11 == Put("footprint" \in cols, "footprint", foot.value) @@ o10
        o12 == Put("acquired_at" \in cols, "acquired_at", parse_aquired_at(uri)) @@ o11
        o13 == Put("uri_etag" \in cols, "uri_etag", "") @@ o12
        o14 == Put("created_at" \in cols, "created_at", created_at) @@ o13
    IN IF ~d.opens
       THEN [res |-> Raise("RuntimeError"), out |-> EmptyRecord, calls |-> NoCalls,
             fp |-> NoFootprint]
       ELSE IF "srid" \in cols /\ srid.raised
       THEN [res |-> Raise("RuntimeError"), out |-> EmptyRecord, calls |-> c1,
             fp |-> NoFootprint]
       ELSE IF foot.raised
       THEN [res |-> Raise(foot.exc), out |-> EmptyRecord, calls |-> c4, fp |-> foot]
       ELSE [res |-> Return(0), out |-> o14, calls |-> c4, fp |-> foot]

ExtractIdle ==
    /\ epc = "idle"
    /\ columns = {}
    /\ ds = Unopenable
    /\ out = EmptyRecord
    /\ eresult = NoResult
    /\ calls = NoCalls
    /\ fp = NoFootprint

(* columns = None *)
NoColumns == [is_none |-> TRUE, names |-> <<>>]

(* write_csv_mosaics is not running *)
CsvOff ==
    /\ wpc = "off"
    /\ entries = <<>>
    /\ columns_arg = NoColumns
    /\ exceptions = FALSE
    /\ rows = <<>>
    /\ attempted = 0
    /\ csv_open = FALSE
    /\ csv_lines = <<>>
    /\ wresult = NoResult

(* ---- the scan command: run / main ---- *)

(* args = p.parse_args(argv) has returned with args.cmd = "scan", the only *)
(* subcommand the parser accepts                                            *)
Init ==
    /\ pc = "parsed"
    /\ root_kind \in RootKinds
    /\ top_n \in TopNs
    /\ stats = ScanStats
    /\ files_left = 0
    /\ result = NoResult
    /\ scan_called = FALSE
    /\ rendered = FALSE
    /\ observed = <<>>
    /\ stat_fails = 0
    /\ dirs_visited = 0
    /\ ok_after_fail = FALSE
    /\ ExtractIdle
    /\ CsvOff

(* root.exists() alone *)
valid_root_exists_only(kind) == kind \in {"dir", "file"}

(* root.exists() and root.is_dir() *)
valid_root(kind) == kind = "dir"

(* not root.exists() or not root.is_dir(): print the error, return 2 *)
RejectRoot ==
    /\ pc = "parsed"
    /\ ~valid_root(root_kind)
    /\ result' = Return(2)
    /\ pc' = "exit"
    /\ UNCHANGED <<root_kind, top_n, stats, files_left, scan_called, rendered,
                   observed, stat_fails, dirs_visited,
                   ok_after_fail, extract_vars, csv_vars>>

(* scan_directory is entered: stats = ScanStats() *)
StartScan ==
    /\ pc = "parsed"
    /\ valid_root(root_kind)
    /\ scan_called' = TRUE
    /\ stats' = ScanStats
    /\ pc' = "walk"
    /\ UNCHANGED <<root_kind, top_n, files_left, result, rendered,
                   observed, stat_fails, dirs_visited,
                   ok_after_fail, extract_vars, csv_vars>>

FilesSeen == Len(observed) + stat_fails

(* os.walk yields the next (dirpath, dirnames, filenames) *)
WalkDir ==
    /\ pc = "walk"
    /\ files_left = 0
    /\ dirs_visited < MaxDirs
    /\ \E n \in 0 .. (MaxFiles - FilesSeen) :
          files_left' = n
    /\ stats' = [stats EXCEPT !.num_dirs = @ + 1]
    /\ dirs_visited' = dirs_visited + 1
    /\ UNCHANGED <<pc, root_kind, top_n, result, scan_called, rendered,
                   observed, stat_fails,
                   ok_after_fail, extract_vars, csv_vars>>

UsedPaths == {observed[i][2] : i \in 1 .. Len(observed)}

(* p.stat() succeeds: stats.add_file(p, st.st_size, top_n) *)
StatOk ==
    /\ pc = "walk"
    /\ files_left > 0
    /\ \E size \in Sizes, p \in Paths \ UsedPaths :
          /\ stats' = add_file(stats, p, size, top_n)
          /\ observed' = Append(observed, <<size, p>>)
    /\ files_left' = files_left - 1
    /\ ok_after_fail' = (ok_after_fail \/ stat_fails > 0)
    /\ UNCHANGED <<pc, root_kind, top_n, result, scan_called, rendered,
                   stat_fails, dirs_visited,
                   extract_vars, csv_vars>>

(* a failed stat that still counts the file *)
StatFail_counted ==
    /\ pc = "walk"
    /\ files_left > 0
    /\ stat_fails' = stat_fails + 1
    /\ files_left' = files_left - 1
    /\ stats' = [stats EXCEPT !.num_files = @ + 1]
    /\ UNCHANGED <<pc, root_kind, top_n, result, scan_called, rendered,
                   observed, dirs_visited,
                   ok_after_fail, extract_vars, csv_vars>>

(* p.stat() raises OSError: continue *)
StatFail ==
    /\ pc = "walk"
    /\ files_left > 0
    /\ stat_fails' = stat_fails + 1
    /\ files_left' = files_left - 1
    /\ UNCHANGED <<pc, root_kind, top_n, stats, result, scan_called, rendered,
                   observed, dirs_visited,
                   ok_after_fail, extract_vars, csv_vars>>

(* os.walk is exhausted: scan_directory returns stats *)
WalkEnd ==
    /\ pc = "walk"
    /\ files_left = 0
    /\ pc' = "render"
    /\ UNCHANGED <<root_kind, top_n, stats, files_left, result, scan_called,
                   rendered, observed, stat_fails, dirs_visited,
                   ok_after_fail, extract_vars, csv_vars>>

(* render_scan_report with a non-empty stats.largest, then return 0 *)
RenderReport ==
    /\ pc = "render"
    /\ stats.largest # <<>>
    /\ rendered' = TRUE
    /\ result' = Return(0)
    /\ pc' = "exit"
    /\ UNCHANGED <<root_kind, top_n, stats, files_left, scan_called,
                   observed, stat_fails, dirs_visited,
                   ok_after_fail, extract_vars, csv_vars>>

(* render_scan_report with an empty stats.largest: the local `largest` is  *)
(* never bound and Group(largest, inv) raises UnboundLocalError            *)
RenderUnbound ==
    /\ pc = "render"
    /\ stats.largest = <<>>
    /\ result' = Raise("UnboundLocalError")
    /\ pc' = "exit"
    /\ UNCHANGED <<root_kind, top_n, stats, files_left, scan_called, rendered,
                   observed, stat_fails, dirs_visited,
                   ok_after_fail, extract_vars, csv_vars>>

Next ==
    \/ RejectRoot
    \/ StartScan
    \/ WalkDir
    \/ StatOk
    \/ StatFail
    \/ WalkEnd
    \/ RenderReport
    \/ RenderUnbound

Spec == Init /\ [][Next]_vars

(* ---- one extract_metadata call on one raster ---- *)

ScanOff ==
    /\ pc = "off"
    /\ root_kind = "dir"
    /\ top_n = 0
    /\ stats = ScanStats
    /\ files_left = 0
    /\ result = NoResult
    /\ scan_called = FALSE
    /\ rendered = FALSE
    /\ observed = <<>>
    /\ stat_fails = 0
    /\ dirs_visited = 0
    /\ ok_after_fail = FALSE

InitExtract ==
    /\ ScanOff
    /\ epc = "idle"
    /\ columns \in ColumnSets
    /\ ds \in Rasters
    /\ out = EmptyRecord
    /\ eresult = NoResult
    /\ calls = NoCalls
    /\ fp = NoFootprint
    /\ CsvOff

(* extract_metadata(uri, columns), from gdal.Open to the return or the raise *)
Extract ==
    /\ epc = "idle"
    /\ \E use_exceptions \in BOOLEAN :
          LET r == extract_metadata(Uri, ds, columns, use_exceptions)
          IN /\ eresult' = r.res
             /\ out' = r.out
             /\ calls' = r.calls
             /\ fp' = r.fp
    /\ epc' = "done"
    /\ UNCHANGED <<columns, ds, scan_vars, csv_vars>>

NextExtract == Extract

SpecExtract == InitExtract /\ [][NextExtract]_vars

(* ---- write_csv_mosaics: the batch over the rasters under input_dir ---- *)

(* columns = [...] *)
Columns(names) == [is_none |-> FALSE, names |-> names]

(* the default column list of write_csv_mosaics *)
DefaultColumns ==
    <<"mosaic_id", "uri", "uri_etag", "byte_size", "crs", "srid", "pixel_width",
      "pixel_height", "band_count", "dtype", "nodata", "footprint", "acquired_at",
      "created_at">>

ColumnArgs ==
    {NoColumns, Columns(<<>>), Columns(<<"uri">>), Columns(<<"footprint", "uri">>),
     Columns(<<"uri", "srid">>), Columns(<<"uri", "elevation", "pixel_width">>)}

(* the rasters met in a batch *)
GoodRaster == [opens |-> TRUE, gt |-> <<0, 1, 0, 0, 0, -1>>, proj |-> Wgs84,
               width |-> 2, height |-> 2,
               bands |-> <<[dtype |-> "Byte", nodata |-> None]>>]
BatchRasters ==
    {GoodRaster, [GoodRaster EXCEPT !.gt = None], [GoodRaster EXCEPT !.proj = BadWkt],
     Unopenable}

(* what rglob("*") can yield: files named *.tif, a file named *.TIFF, a    *)
(* file that is no raster, a directory named *.tif                         *)
DirEntries ==
    [is_file : {TRUE}, suffix : {".tif"}, raster : BatchRasters]
    \cup {[is_file |-> TRUE, suffix |-> ".TIFF", raster |-> GoodRaster],
          [is_file |-> TRUE, suffix |-> ".txt", raster |-> Unopenable],
          [is_file |-> FALSE, suffix |-> ".tif", raster |-> Unopenable]}

RECURSIVE SeqsUpTo(_, _)
SeqsUpTo(S, n) ==
    IF n = 0 THEN {<<>>}
    ELSE LET shorter == SeqsUpTo(S, n - 1)
         IN shorter \cup {Append(q, e) : q \in shorter, e \in S}

(* p.suffix.lower() *)
lower(suffix) ==
    IF suffix = ".TIFF" THEN ".tiff" ELSE IF suffix = ".TIF" THEN ".tif" ELSE suffix

(* str(p) of the i-th entry *)
PathOf(i, e) == "mosaic_" \o ToString(i) \o e.suffix

(* iter_tifs: the entries that are files with suffix .tif or .tiff, in order *)
RECURSIVE iter_tifs_from(_, _)
iter_tifs_from(es, i) ==
    IF i > Len(es) THEN <<>>
    ELSE LET here == IF es[i].is_file /\ lower(es[i].suffix) \in {".tif", ".tiff"}
                     THEN <<[uri |-> PathOf(i, es[i]), raster |-> es[i].raster]>>
                     ELSE <<>>
         IN here \o iter_tifs_from(es, i + 1)

iter_tifs(es) == iter_tifs_from(es, 1)

(* columns after `if columns is None` *)
fieldnames(arg) == IF arg.is_none THEN DefaultColumns ELSE arg.names

NamesOf(names) == {names[j] : j \in 1 .. Len(names)}

(* r.get(k, "") *)
get(r, k) == IF k \in DOMAIN r THEN r[k] ELSE ""

(* w.writerow({k: r.get(k, "") for k in columns}): the fields of one line *)
writerow(names, r) == [j \in 1 .. Len(names) |-> get(r, names[j])]

InitCsv ==
    /\ ScanOff
    /\ ExtractIdle
    /\ wpc = "extract"
    /\ entries \in SeqsUpTo(DirEntries, MaxEntries)
    /\ columns_arg \in ColumnArgs
    /\ exceptions \in BOOLEAN
    /\ rows = <<>>
    /\ attempted = 0
    /\ csv_open = FALSE
    /\ csv_lines = <<>>
    /\ wresult = NoResult

(* the extract_metadata call on the next raster iter_tifs yields *)
NextExtraction ==
    LET tif == iter_tifs(entries)[attempted + 1]
    IN extract_metadata(tif.uri, tif.raster, NamesOf(fieldnames(columns_arg)), exceptions)

(* rows.append(extract_metadata(str(tif), columns)) *)
ExtractTif ==
    /\ wpc = "extract"
    /\ attempted < Len(iter_tifs(entries))
    /\ NextExtraction.res.kind = "return"
    /\ rows' = Append(rows, NextExtraction.out)
    /\ attempted' = attempted + 1
    /\ UNCHANGED <<wpc, entries, columns_arg, exceptions, csv_open, csv_lines, wresult,
                   scan_vars, extract_vars>>

(* extract_metadata raises: the exception leaves write_csv_mosaics *)
ExtractTifRaises ==
    /\ wpc = "extract"
    /\ attempted < Len(iter_tifs(entries))
    /\ NextExtraction.res.kind = "raise"
    /\ attempted' = attempted + 1
    /\ wresult' = NextExtraction.res
    /\ wpc' = "exit"
    /\ UNCHANGED <<entries, columns_arg, exceptions, rows, csv_open, csv_lines,
                   scan_vars, extract_vars>>

(* iter_tifs is exhausted: open out_csv, write the header and the rows *)
WriteCsv ==
    /\ wpc = "extract"
    /\ attempted = Len(iter_tifs(entries))
    /\ csv_open' = TRUE
    /\ csv_lines' = <<fieldnames(columns_arg)>>
                    \o [i \in 1 .. Len(rows) |-> writerow(fieldnames(columns_arg), rows[i])]
    /\ wresult' = Return(0)
    /\ wpc' = "exit"
    /\ UNCHANGED <<entries, columns_arg, exceptions, rows, attempted,
                   scan_vars, extract_vars>>

NextCsv ==
    \/ ExtractTif
    \/ ExtractTifRaises
    \/ WriteCsv

SpecCsv == InitCsv /\ [][NextCsv]_vars

(* ---- properties of the scan ---- *)

Min2(a, b) == IF a < b THEN a ELSE b

SizesOf(items) == [i \in 1 .. Len(items) |-> items[i][1]]

Entries(items) == {items[i] : i \in 1 .. Len(items)}

(* how often the size v occurs in the sequence of sizes *)
Occurrences(sizes, v) == Cardinality({i \in 1 .. Len(sizes) : sizes[i] = v})

MinSize(items) ==
    CHOOSE m \in {items[i][1] : i \in 1 .. Len(items)} :
        \A i \in 1 .. Len(items) : m <= items[i][1]

(* the n largest sizes among those at the positions idx of the sizes *)
RECURSIVE LargestSizes(_, _, _)
LargestSizes(sizes, idx, n) ==
    IF n = 0 \/ idx = {}
    THEN <<>>
    ELSE LET m == CHOOSE i \in idx : \A j \in idx : sizes[i] >= sizes[j]
         IN <<sizes[m]>> \o LargestSizes(sizes, idx \ {m}, n - 1)

RECURSIVE SumSizes(_)
SumSizes(items) ==
    IF items = <<>> THEN 0 ELSE items[1][1] + SumSizes(Tail(items))

(* C1: with a capacity top_n > 0, after every observation the sizes held   *)
(* in `largest` are, as a multiset, the min(k, top_n) largest of the k     *)
(* sizes observed so far: len(largest) = min(k, top_n), and every retained *)
(* size is >= every observed size that is not retained.                    *)
C1_LargestIsTopN ==
    (top_n > 0 /\ scan_called) =>
        LET k == Len(observed)
            all == SizesOf(observed)
            kept == SizesOf(stats.largest)
            top == LargestSizes(all, 1 .. k, Min2(k, top_n))
        IN /\ Len(stats.largest) = Min2(k, top_n)
           /\ \A v \in Sizes : Occurrences(kept, v) = Occurrences(top, v)
           /\ \A v \in Sizes :
                 Occurrences(all, v) > Occurrences(kept, v) =>
                     \A i \in 1 .. Len(kept) : kept[i] >= v

(* an early file has been evicted from a full `largest` *)
C1_Witness ==
    /\ top_n = 2
    /\ Len(observed) >= 3
    /\ Len(stats.largest) = 2
    /\ observed[1] \notin Entries(stats.largest)

(* C2: once `largest` holds top_n entries, an observation whose size is    *)
(* <= the smallest retained size leaves the entries of `largest`           *)
(* unchanged, and one whose size is strictly greater removes exactly one   *)
(* entry of the smallest retained size and adds the new entry.             *)
C2_TieKeepsEarlier ==
    [][(/\ top_n > 0
        /\ Len(stats.largest) = top_n
        /\ Len(observed') = Len(observed) + 1)
       => LET new == observed'[Len(observed')]
              old == Entries(stats.largest)
              now == Entries(stats'.largest)
              least == MinSize(stats.largest)
          IN /\ Len(stats'.largest) = top_n
             /\ IF new[1] <= least
                THEN now = old
                ELSE /\ new \notin old
                     /\ \E e \in old : e[1] = least /\ now = (old \ {e}) \cup {new}]_vars

(* a file of the smallest retained size arrived at capacity and was not kept *)
C2_Witness ==
    /\ top_n > 0
    /\ Len(observed) > top_n
    /\ Len(stats.largest) = top_n
    /\ observed[Len(observed)] \notin Entries(stats.largest)
    /\ observed[Len(observed)][1] = MinSize(stats.largest)

(* C3: with top_n = 0, `largest` is empty in every state, num_files is the *)
(* number of observations and total_bytes the sum of their sizes.          *)
C3_ZeroCapacityInert ==
    top_n = 0 =>
        /\ stats.largest = <<>>
        /\ stats.num_files = Len(observed)
        /\ stats.total_bytes = SumSizes(observed)

C3_Witness ==
    /\ top_n = 0
    /\ Len(observed) >= 2
    /\ stats.total_bytes > 0
    /\ stats.num_files = Len(observed)

(* C4: a file whose stat fails changes none of num_files, total_bytes and  *)
(* `largest` and the walk goes on; at every point num_files is the number  *)
(* of files whose stat succeeded, total_bytes the sum of their sizes and   *)
(* num_dirs the number of directories visited.                             *)
C4_StatFailureSkipped ==
    /\ [](/\ stats.num_files = Len(observed)
          /\ stats.total_bytes = SumSizes(observed)
          /\ stats.num_dirs = dirs_visited)
    /\ [][stat_fails' = stat_fails + 1 => (stats' = stats /\ pc' = "walk")]_vars

(* the scan has ended after a failed stat was followed by a successful one *)
C4_Witness ==
    /\ pc = "render"
    /\ stat_fails >= 1
    /\ ok_after_fail
    /\ stats.num_files >= 1
    /\ stats.num_dirs = 2

(* C5: for an existing directory and top_n >= 0 the scan command renders   *)
(* the report without raising and returns 0.                               *)
C5_ScanReturnsZero ==
    (pc = "exit" /\ root_kind = "dir" /\ top_n >= 0) =>
        (result = Return(0) /\ rendered)

(* C6: a root that is missing or not a directory makes the command return  *)
(* 2; scan_directory is never called, no ScanStats is created or mutated   *)
(* and no report is rendered.                                              *)
C6_InvalidRootNoScan ==
    root_kind # "dir" =>
        /\ pc \in {"parsed", "exit"}
        /\ ~scan_called
        /\ stats = ScanStats
        /\ observed = <<>> /\ stat_fails = 0 /\ dirs_visited = 0
        /\ ~rendered
        /\ (pc = "exit" => result = Return(2))

C6_Witness ==
    /\ pc = "exit"
    /\ root_kind = "file"
    /\ result = Return(2)
    /\ ~scan_called

(* ---- properties of the extraction ---- *)

(* C7: get_footprint never raises and returns "" when the raster has no    *)
(* geotransform, or its projection is empty or unparseable; the record of  *)
(* extract_metadata then has footprint = "".                               *)
C7_FootprintNeverRaises ==
    (/\ fp.called
     /\ (ds.gt = None \/ ds.proj = "" \/ Unparseable(ds.proj)))
    => /\ ~fp.raised
       /\ fp.value = ""
       /\ eresult = Return(0)
       /\ out["footprint"] = ""

(* the columns on which each provider capability depends *)
Dependents(call) ==
    CASE call = "GetProjection" -> {"crs", "srid", "footprint"}
      [] call = "GetGeoTransform" -> {"footprint"}
      [] call = "RasterXSize" -> {"pixel_width", "pixel_height", "band_count", "footprint"}
      [] call = "RasterYSize" -> {"pixel_width", "pixel_height", "band_count", "footprint"}
      [] call = "RasterCount" -> {"pixel_width", "pixel_height", "band_count",
                                  "dtype", "nodata"}
      [] call = "GetRasterBand" -> {"dtype", "nodata"}
      [] call = "TransformPoint" -> {"footprint"}
      [] call = "get_footprint" -> {"footprint"}

(* C8: a provider sub-computation runs only if a column that depends on it *)
(* is requested, so columns = ["uri"] touches none of them; the keys of    *)
(* the returned record are the requested columns of the vocabulary.        *)
C8_OnlyRequestedWork ==
    epc = "done" =>
        /\ \A c \in CallNames : calls[c] > 0 => Dependents(c) \cap columns # {}
        /\ columns = {"uri"} => (calls = NoCalls /\ ~fp.called)
        /\ eresult.kind = "return" => DOMAIN out = columns \cap Vocabulary
        /\ (eresult.kind = "return" /\ columns = {"uri"}) => out = [k \in {"uri"} |-> Uri]

C8_Witness ==
    /\ epc = "done"
    /\ columns = {"uri"}
    /\ ds.opens
    /\ ds.proj = Wgs84
    /\ ds.gt # None
    /\ eresult = Return(0)
    /\ DOMAIN out = {"uri"}

(* C9: within one extract_metadata call the projection is read at most     *)
(* once and the raster width and height are read at most once.             *)
C9_SharedReadOnce ==
    /\ calls["GetProjection"] <= 1
    /\ calls["RasterXSize"] <= 1
    /\ calls["RasterYSize"] <= 1

(* the ring of the claim, from the geotransform and the raster size *)
Ring(gt, w, h) ==
    LET x(px, py) == gt[1] + px * gt[2] + py * gt[3]
        y(px, py) == gt[4] + px * gt[5] + py * gt[6]
    IN <<<<x(0, 0), y(0, 0)>>, <<x(w, 0), y(w, 0)>>, <<x(w, h), y(w, h)>>,
         <<x(0, h), y(0, h)>>, <<x(0, 0), y(0, 0)>>>>

UnitRaster(d) ==
    d.gt = <<0, 1, 0, 0, 0, -1>> /\ d.width = 2 /\ d.height = 2 /\ d.proj = Wgs84

(* C10: with a geotransform and a non-empty projection get_footprint       *)
(* builds five points, pixels (0,0), (W,0), (W,H), (0,H), (0,0) mapped by  *)
(* the geotransform, the last equal to the first; geotransform             *)
(* (0,1,0,0,0,-1), size 2x2 and an identity reprojection give the ring     *)
(* (0,0),(2,0),(2,-2),(0,-2),(0,0).                                        *)
C10_FootprintRing ==
    (fp.called /\ ds.gt # None /\ ds.proj # "") =>
        /\ Len(fp.corners) = 5
        /\ fp.corners = Ring(ds.gt, ds.width, ds.height)
        /\ fp.corners[5] = fp.corners[1]
        /\ UnitRaster(ds) =>
              /\ fp.corners_out = <<<<0, 0>>, <<2, 0>>, <<2, -2>>, <<0, -2>>, <<0, 0>>>>
              /\ fp.value = "SRID=4326;POLYGON((0.00000000 0.00000000,"
                            \o "2.00000000 0.00000000,2.00000000 -2.00000000,"
                            \o "0.00000000 -2.00000000,0.00000000 0.00000000))"

C10_Witness ==
    /\ epc = "done"
    /\ fp.called
    /\ UnitRaster(ds)
    /\ eresult = Return(0)
    /\ out["footprint"] = fp.value
    /\ fp.value # ""

(* ---- properties of the batch ---- *)

Tifs == iter_tifs(entries)

Unopenables == {i \in 1 .. Len(Tifs) : ~Tifs[i].raster.opens}

FirstUnopenable == CHOOSE i \in Unopenables : \A j \in Unopenables : i <= j

(* out_csv holds the header in the requested order, then one line per      *)
(* raster in the order of enumeration                                      *)
CsvComplete ==
    LET names == fieldnames(columns_arg)
    IN /\ csv_open
       /\ Len(csv_lines) = 1 + Len(Tifs)
       /\ csv_lines[1] = names
       /\ \A i \in 1 .. Len(Tifs) :
             /\ Len(csv_lines[i + 1]) = Len(names)
             /\ \A j \in 1 .. Len(names) :
                   names[j] = "uri" => csv_lines[i + 1][j] = Tifs[i].uri

(* an extract_metadata call that raises ends the batch with nothing        *)
(* written, whatever was extracted before; out_csv is opened only after    *)
(* the last extraction; a batch without a raise writes the complete file   *)
BatchAllOrNothing ==
    /\ csv_open => (attempted = Len(Tifs) /\ Len(rows) = Len(Tifs))
    /\ wresult.kind = "raise" => (~csv_open /\ csv_lines = <<>>)
    /\ (wpc = "exit" /\ Unopenables # {}) =>
          (wresult.kind = "raise" /\ attempted <= FirstUnopenable)
    /\ (wpc = "exit" /\ wresult.kind = "return") => CsvComplete

(* C11: a raster that cannot be opened is fatal to the batch: the error    *)
(* leaves write_csv_mosaics, no later raster is extracted and no header or *)
(* row is written, also for the rasters extracted before it, since every   *)
(* extraction precedes the opening of out_csv; when every raster opens,    *)
(* out_csv holds the header in the requested column order and one row per  *)
(* raster in the order of enumeration.                                     *)
C11_OpenFailureFatalElseCsv ==
    /\ csv_open => attempted = Len(Tifs)
    /\ wpc = "exit" =>
          IF Unopenables # {}
          THEN /\ wresult.kind = "raise"
               /\ attempted <= FirstUnopenable
               /\ ~csv_open
               /\ csv_lines = <<>>
          ELSE /\ wresult = Return(0)
               /\ CsvComplete

(* a batch stopped by a raster that does not open, after one was extracted *)
OpenFailureAfterSuccess ==
    /\ wpc = "exit"
    /\ Unopenables # {}
    /\ attempted = FirstUnopenable
    /\ Len(rows) >= 1
    /\ wresult = Raise("RuntimeError")

(* a complete file of two rasters with the footprint column *)
CsvOfTwo ==
    /\ wpc = "exit"
    /\ Len(Tifs) = 2
    /\ columns_arg = Columns(<<"footprint", "uri">>)
    /\ CsvComplete

====
